---- MODULE Spec2Model ----
(***************************************************************************)
(* Windowed, group-aware co-occurrence counting over CSR sparse matrices,  *)
(* as implemented in 5_feature_extraction.ipynb: the one-hot encoder cell, *)
(* is_same_after_shift, csr_shift, csr_cum_sum and extract_features.       *)
(*                                                                         *)
(* A CSR matrix is a record [shape, indptr, indices, data].  TLA+          *)
(* sequences are 1-based: Python's indptr[k] is indptr[k+1] here, while    *)
(* the VALUES of indptr (offsets) and of indices (column numbers) are kept *)
(* 0-based as in the code.  Rows are numbered 1..N in the formulas, so     *)
(* row i here is Python row i-1.                                           *)
(*                                                                         *)
(* The notebooks before it are modelled beside it: the index reader        *)
(* get_n_filings, get_html_from_url with the download loop, and the        *)
(* frequent-word filter of the feature selection.                          *)
(***************************************************************************)
EXTENDS Integers, Sequences, FiniteSets, TLC

VARIABLES words, company, best_features, window,
          pc, words_enc, dir, step, same_company, shifted_csr, cumsum_scr,
          above, below, X,
          trail, downs, par,
          filings, i_filing, url_10k, saved, calls, dpc,
          index_lines, n_want, text, filings_n, gpc,
          data_train, unique_words, counts, top_features, spc

\* The state of the data-collection and feature-selection notebooks.
nbVars == <<filings, i_filing, url_10k, saved, calls, dpc,
            index_lines, n_want, text, filings_n, gpc,
            data_train, unique_words, counts, top_features, spc>>

vars == <<words, company, best_features, window,
          pc, words_enc, dir, step, same_company, shifted_csr, cumsum_scr,
          above, below, X, trail, downs, par, nbVars>>

(* ------------------------------ bounds --------------------------------- *)
MaxN == 3          \* longest token sequence of Spec
MaxW == 3          \* largest window size of Spec
MaxRows == 3       \* most rows of an input matrix of SpecShift
MaxShifts == 2     \* most consecutive csr_shift calls of SpecShift

Tokens == {"a", "b", "z"}              \* "z" is in no vocabulary
CompanyNames == <<"A", "B", "C">>
ShiftCols == {0, 1}
ShiftVals == {1, 2}

Procs == {"above", "below"}

Undefined == "undefined"               \* a global name not yet bound

\* The other notebooks not running.
NbIdle ==
    /\ filings = <<>> /\ i_filing = 0 /\ url_10k = Undefined
    /\ saved = <<>> /\ calls = <<>> /\ dpc = "idle"
    /\ index_lines = <<>> /\ n_want = 0 /\ text = 0 /\ filings_n = <<>> /\ gpc = "idle"
    /\ data_train = <<>> /\ unique_words = <<>> /\ counts = <<>>
    /\ top_features = <<>> /\ spc = "idle"

None == [shape |-> <<0, 0>>, indptr |-> <<0>>, indices |-> <<>>, data |-> <<>>]

(* ------------------------------ helpers -------------------------------- *)
RECURSIVE SumRange(_, _, _)
SumRange(f, lo, hi) == IF lo > hi THEN 0 ELSE f[lo] + SumRange(f, lo + 1, hi)

RECURSIVE Concat(_, _)
Concat(rows, k) == IF k = 0 THEN <<>> ELSE Concat(rows, k - 1) \o rows[k]

\* The array with the elements of f, a function on 1..n.
np_array(f) == <<>> \o f

NRows(m) == m.shape[1]
NCols(m) == m.shape[2]

\* Dense reading of a CSR matrix: the value at row i (1..N), column c (0..K-1);
\* stored duplicates of a column add up, as in scipy.
At(m, i, c) ==
    LET lo == m.indptr[i] + 1
        hi == m.indptr[i + 1]
        term == [p \in 1..Len(m.indices) |-> IF m.indices[p] = c THEN m.data[p] ELSE 0]
    IN  SumRange(term, lo, hi)

\* The stored (column, value) pairs of row i, in storage order.
RowEntries(m, i) ==
    [p \in 1..(m.indptr[i + 1] - m.indptr[i]) |->
        <<m.indices[m.indptr[i] + p], m.data[m.indptr[i] + p]>>]

\* Canonical CSR matrix of a dense table d[i][c], i in 1..n, c in 0..k-1.
from_dense(d, n, k) ==
    LET cols(i) == SelectSeq([c \in 1..k |-> c - 1], LAMBDA c : d[i][c] # 0)
        rows == np_array([i \in 1..n |-> cols(i)])
        vals == np_array([i \in 1..n |-> [p \in 1..Len(rows[i]) |-> d[i][rows[i][p]]]])
    IN  [shape   |-> <<n, k>>,
         indptr  |-> np_array([j \in 1..(n + 1) |-> Len(Concat(rows, j - 1))]),
         indices |-> Concat(rows, n),
         data    |-> Concat(vals, n)]

(* --------------------------- one-hot encoder --------------------------- *)
\* OneHotEncoder(categories=[best_features], handle_unknown='ignore'):
\* one stored 1 per known word, none for an unknown word.
IsKnown(w, cats) == \E c \in 1..Len(cats) : cats[c] = w
CatIndex(w, cats) == (CHOOSE c \in 1..Len(cats) :
                         cats[c] = w /\ \A e \in 1..Len(cats) : cats[e] = w => e <= c) - 1

\* Faulty variant: an unknown word is encoded as the first category.
fit_transform_unknown_first(ws, cats) ==
    LET n == Len(ws)
        known == np_array([i \in 1..n |-> IF IsKnown(ws[i], cats) THEN <<CatIndex(ws[i], cats)>> ELSE <<0>>])
        ones  == np_array([i \in 1..n |-> <<1>>])
    IN  [shape   |-> <<n, Len(cats)>>,
         indptr  |-> np_array([j \in 1..(n + 1) |-> Len(Concat(known, j - 1))]),
         indices |-> Concat(known, n),
         data    |-> Concat(ones, n)]

fit_transform(ws, cats) ==
    LET n == Len(ws)
        known == np_array([i \in 1..n |-> IF IsKnown(ws[i], cats) THEN <<CatIndex(ws[i], cats)>> ELSE <<>>])
        ones  == np_array([i \in 1..n |-> IF IsKnown(ws[i], cats) THEN <<1>> ELSE <<>>])
    IN  [shape   |-> <<n, Len(cats)>>,
         indptr  |-> np_array([j \in 1..(n + 1) |-> Len(Concat(known, j - 1))]),
         indices |-> Concat(known, n),
         data    |-> Concat(ones, n)]

(* ------------------------- is_same_after_shift ------------------------- *)
\* np.roll(vector, shift): element j of the result is element j - shift
\* (modulo the length) of the vector.
np_roll(vector, shift) ==
    LET n == Len(vector)
    IN  np_array([j \in 1..n |-> vector[((j - 1 - shift) % n) + 1]])

\* Faulty variant: the group test left out, every neighbour counted as the same company.
is_same_after_shift_any(vector, shift) ==
    np_array([j \in 1..Len(vector) |-> 1])

\* Faulty variant: a neighbour counts only when no other company lies between.
is_same_after_shift_run(vector, shift) ==
    LET n == Len(vector)
        from(j) == ((j - 1 - shift) % n) + 1
        lo(j) == IF from(j) < j THEN from(j) ELSE j
        hi(j) == IF from(j) < j THEN j ELSE from(j)
    IN  np_array([j \in 1..n |->
            IF \A k \in lo(j)..hi(j) : vector[k] = vector[j] THEN 1 ELSE 0])

is_same_after_shift(vector, shift) ==
    LET rolled == np_roll(vector, shift)
    IN  np_array([j \in 1..Len(vector) |-> IF vector[j] = rolled[j] THEN 1 ELSE 0])

(* ------------------------------ csr_shift ------------------------------ *)
np_delete_last(a) == SubSeq(a, 1, Len(a) - 1)

\* Faulty variant: the up branch moves the row pointers but forgets to drop the
\* stored values of the first row.
csr_shift_y_nodrop(csr, down) ==
    LET n == Len(csr.indptr)
    IN  IF down
        THEN LET has_last == csr.indptr[n] # csr.indptr[n - 1]
             IN  [shape   |-> csr.shape,
                  indptr  |-> <<0>> \o SubSeq(csr.indptr, 1, n - 1),
                  indices |-> IF has_last THEN np_delete_last(csr.indices) ELSE csr.indices,
                  data    |-> IF has_last THEN np_delete_last(csr.data) ELSE csr.data]
        ELSE LET ip1 == <<0>> \o [k \in 1..(n - 2) |-> csr.indptr[k + 2] - csr.indptr[2]]
             IN  [shape   |-> csr.shape,
                  indptr  |-> Append(ip1, ip1[Len(ip1)]),
                  indices |-> csr.indices,
                  data    |-> csr.data]

\* Faulty variant: a rotation of the rows, the row leaving at one end entering at the other.
csr_shift_y_roll(csr, down) ==
    LET n == NRows(csr)
        src(i) == IF down THEN ((i - 2) % n) + 1 ELSE (i % n) + 1
    IN  from_dense([i \in 1..n |-> [c \in 0..(NCols(csr) - 1) |-> At(csr, src(i), c)]],
                   n, NCols(csr))

\* Faulty variant: the down branch keeps the row pointers of the input, so that no
\* row moves and only the last row's final value is dropped.
csr_shift_y_stay(csr, down) ==
    LET n == Len(csr.indptr)
    IN  IF down
        THEN LET has_last == csr.indptr[n] # csr.indptr[n - 1]
             IN  [shape   |-> csr.shape,
                  indptr  |-> [k \in 1..n |-> IF k = n /\ has_last
                                              THEN csr.indptr[n] - 1 ELSE csr.indptr[k]],
                  indices |-> IF has_last THEN np_delete_last(csr.indices) ELSE csr.indices,
                  data    |-> IF has_last THEN np_delete_last(csr.data) ELSE csr.data]
        ELSE LET number_of_values_to_drop == csr.indptr[2]
                 ip1 == <<0>> \o [k \in 1..(n - 2) |-> csr.indptr[k + 2] - csr.indptr[2]]
             IN  [shape   |-> csr.shape,
                  indptr  |-> Append(ip1, ip1[Len(ip1)]),
                  indices |-> SubSeq(csr.indices, number_of_values_to_drop + 1, Len(csr.indices)),
                  data    |-> SubSeq(csr.data, number_of_values_to_drop + 1, Len(csr.data))]

\* The body of csr_shift up to, not including, y.check_format().
csr_shift_y(csr, down) ==
    LET n == Len(csr.indptr)
    IN  IF down
        THEN LET has_last == csr.indptr[n] # csr.indptr[n - 1]
             IN  [shape   |-> csr.shape,
                  indptr  |-> <<0>> \o SubSeq(csr.indptr, 1, n - 1),
                  indices |-> IF has_last THEN np_delete_last(csr.indices) ELSE csr.indices,
                  data    |-> IF has_last THEN np_delete_last(csr.data) ELSE csr.data]
        ELSE LET number_of_values_to_drop == csr.indptr[2]
                 ip1 == <<0>> \o [k \in 1..(n - 2) |-> csr.indptr[k + 2] - csr.indptr[2]]
                 ip2 == Append(ip1, ip1[Len(ip1)])
             IN  [shape   |-> csr.shape,
                  indptr  |-> ip2,
                  indices |-> IF number_of_values_to_drop # 0
                              THEN SubSeq(csr.indices, number_of_values_to_drop + 1, Len(csr.indices))
                              ELSE csr.indices,
                  data    |-> IF number_of_values_to_drop # 0
                              THEN SubSeq(csr.data, number_of_values_to_drop + 1, Len(csr.data))
                              ELSE csr.data]

\* scipy's check_format(full_check=True): the conditions under which it raises.
check_format_raises(y) ==
    \/ Len(y.indptr) # NRows(y) + 1
    \/ y.indptr[1] # 0
    \/ Len(y.indices) # Len(y.data)
    \/ y.indptr[Len(y.indptr)] > Len(y.indices)
    \/ /\ y.indptr[Len(y.indptr)] > 0
       /\ \/ \E p \in 1..y.indptr[Len(y.indptr)] :
                y.indices[p] >= NCols(y) \/ y.indices[p] < 0
          \/ \E k \in 1..(Len(y.indptr) - 1) : y.indptr[k + 1] < y.indptr[k]

\* Faulty variant: storage beyond indptr[-1] is kept.
prune_none(y) == y

\* check_format also prunes: storage beyond indptr[-1] is cut off.
prune(y) ==
    [y EXCEPT !.indices = SubSeq(y.indices, 1, y.indptr[Len(y.indptr)]),
              !.data    = SubSeq(y.data, 1, y.indptr[Len(y.indptr)])]

csr_shift(csr, down) == prune(csr_shift_y(csr, down))

(* ----------------------------- csr_cum_sum ----------------------------- *)
\* csr_matrix(shape): the empty matrix.
csr_zeros(shape) ==
    [shape |-> shape, indptr |-> np_array([j \in 1..(shape[1] + 1) |-> 0]),
     indices |-> <<>>, data |-> <<>>]

\* same_company.T.multiply(shifted): row i of shifted scaled by mask[i]; a
\* mask of length one is a (1, 1) matrix and scales every row (scipy's
\* single-element case).
multiply(mask, m) ==
    from_dense([i \in 1..NRows(m) |-> [c \in 0..(NCols(m) - 1) |->
                   (IF Len(mask) = 1 THEN mask[1] ELSE mask[i]) * At(m, i, c)]],
               NRows(m), NCols(m))

\* The mask lengths for which line 449 raises ValueError (inconsistent
\* shapes, in multiply or in the += that follows it).
multiply_raises(mask, m) == Len(mask) \notin {1, NRows(m)}

\* Faulty variant: assignment in place of +=, the accumulator overwritten each iteration.
add_overwrite(acc, m) ==
    from_dense([i \in 1..NRows(acc) |-> [c \in 0..(NCols(acc) - 1) |-> At(m, i, c)]],
               NRows(acc), NCols(acc))

\* Faulty variant: the masked rows are subtracted from the accumulator.
add_subtract(acc, m) ==
    from_dense([i \in 1..NRows(acc) |-> [c \in 0..(NCols(acc) - 1) |-> At(acc, i, c) - At(m, i, c)]],
               NRows(acc), NCols(acc))

\* cumsum_scr += m
add(acc, m) ==
    from_dense([i \in 1..NRows(acc) |-> [c \in 0..(NCols(acc) - 1) |-> At(acc, i, c) + At(m, i, c)]],
               NRows(acc), NCols(acc))

\* Faulty variant: the direction of the rotation ignored.
mask_shift_unsigned(i, is_above) == i

\* i * [-1, 1][above]
mask_shift(i, is_above) == i * (IF is_above THEN 1 ELSE -1)

\* Faulty variant: no copy is taken, the callee's writes land in the caller's matrix.
copy_source_aliased(csr, y) == y

\* y = csr.copy() (and shifted_csr = onehot_csr.copy()): what the matrix csr
\* holds once the copy y has been written to.
copy_source(csr, y) == csr

\* Faulty variant: the rows are accumulated before they are shifted.
cum_step_unshifted(st, company_vector, i, is_above) ==
    LET mask == is_same_after_shift(company_vector, mask_shift(i, is_above))
        sh == csr_shift(st.shifted_csr, is_above)
    IN  [same_company |-> mask,
         shifted_csr  |-> sh,
         cumsum_scr   |-> add(st.cumsum_scr, multiply(mask, st.shifted_csr))]

\* Faulty variant: the shifted rows are added to the working copy instead of
\* replacing it.
cum_step_grow(st, company_vector, i, is_above) ==
    LET mask == is_same_after_shift(company_vector, mask_shift(i, is_above))
        sh == add(st.shifted_csr, csr_shift(st.shifted_csr, is_above))
    IN  [same_company |-> mask,
         shifted_csr  |-> sh,
         cumsum_scr   |-> add(st.cumsum_scr, multiply(mask, sh))]

\* One iteration of the loop of csr_cum_sum on the pair (cumsum_scr, shifted_csr).
cum_step(st, company_vector, i, is_above) ==
    LET mask == is_same_after_shift(company_vector, mask_shift(i, is_above))
        sh == csr_shift(st.shifted_csr, is_above)
    IN  [same_company |-> mask,
         shifted_csr  |-> sh,
         cumsum_scr   |-> add(st.cumsum_scr, multiply(mask, sh))]

\* The loop from iteration i on.  The CHOOSE over a one-element set binds nxt
\* to the value of the pair after iteration i, computed once.
RECURSIVE cum_loop(_, _, _, _, _)
cum_loop(st, company_vector, i, window_size, is_above) ==
    IF i > window_size THEN st.cumsum_scr
    ELSE CHOOSE result \in {cum_loop(nxt, company_vector, i + 1, window_size, is_above) :
                               nxt \in {cum_step(st, company_vector, i, is_above)}} : TRUE

csr_cum_sum(onehot_csr, company_vector, window_size, is_above) ==
    cum_loop([same_company |-> <<>>, shifted_csr |-> onehot_csr,
              cumsum_scr |-> csr_zeros(onehot_csr.shape)],
             company_vector, 1, window_size, is_above)

(* --------------------------- extract_features -------------------------- *)
\* Dense reading of a CSC matrix: indptr runs over columns, indices hold
\* 0-based row numbers.
AtCsc(m, i, c) ==
    LET lo == m.indptr[c + 1] + 1
        hi == m.indptr[c + 2]
        term == [p \in 1..Len(m.indices) |-> IF m.indices[p] = i - 1 THEN m.data[p] ELSE 0]
    IN  SumRange(term, lo, hi)

tocsc(m) ==
    LET n == NRows(m)
        k == NCols(m)
        rws(c) == SelectSeq([i \in 1..n |-> i - 1], LAMBDA r : At(m, r + 1, c) # 0)
        colrows == np_array([c \in 1..k |-> rws(c - 1)])
        colvals == np_array([c \in 1..k |-> [p \in 1..Len(colrows[c]) |-> At(m, colrows[c][p] + 1, c - 1)]])
    IN  [shape   |-> m.shape,
         indptr  |-> np_array([j \in 1..(k + 1) |-> Len(Concat(colrows, j - 1))]),
         indices |-> Concat(colrows, k),
         data    |-> Concat(colvals, k)]

\* Faulty variant: the halves stacked in the other order.
hstack_swapped(a, b) ==
    [shape   |-> <<NRows(a), NCols(a) + NCols(b)>>,
     indptr  |-> b.indptr \o [j \in 1..NCols(a) |-> a.indptr[j + 1] + Len(b.indices)],
     indices |-> b.indices \o a.indices,
     data    |-> b.data \o a.data]

\* hstack([a, b]) of two CSC matrices: the columns of b follow those of a.
hstack(a, b) ==
    [shape   |-> <<NRows(a), NCols(a) + NCols(b)>>,
     indptr  |-> a.indptr \o [j \in 1..NCols(b) |-> b.indptr[j + 1] + Len(a.indices)],
     indices |-> a.indices \o b.indices,
     data    |-> a.data \o b.data]

tocsr(m) ==
    from_dense([i \in 1..NRows(m) |-> [c \in 0..(NCols(m) - 1) |-> AtCsc(m, i, c)]],
               NRows(m), NCols(m))

(* ------------------------- the extraction run -------------------------- *)
\* Company vectors up to renaming: a new name appears only after all the
\* names before it in CompanyNames have appeared.
NameIx(x) == CHOOSE k \in 1..Len(CompanyNames) : CompanyNames[k] = x
Canonical(v) ==
    \A j \in 1..Len(v) :
        \/ NameIx(v[j]) = 1
        \/ \E e \in 1..(j - 1) : NameIx(v[e]) = NameIx(v[j]) - 1

CompanyVectors(n) ==
    {v \in [1..n -> {CompanyNames[k] : k \in 1..Len(CompanyNames)}] : Canonical(v)}

\* The locals of one csr_cum_sum call running as a process of its own.
ProcIdle == [pc |-> "idle", step |-> 0, same_company |-> <<>>,
             shifted_csr |-> None, cumsum_scr |-> None]
ParIdle == [p \in Procs |-> ProcIdle]

InitRun(ws, cv, cats, w) ==
    /\ words = ws
    /\ company = cv
    /\ best_features = cats
    /\ window = w
    /\ pc = "encode"
    /\ words_enc = None
    /\ dir = TRUE
    /\ step = 0
    /\ same_company = <<>>
    /\ shifted_csr = None
    /\ cumsum_scr = None
    /\ above = None
    /\ below = None
    /\ X = None
    /\ trail = <<>>
    /\ downs = <<>>
    /\ par = ParIdle
    /\ NbIdle

Init ==
    \E n \in 1..MaxN :
      \E ws \in [1..n -> Tokens], cv \in CompanyVectors(n), w \in 0..MaxW :
        InitRun(ws, cv, <<"a", "b">>, w)

runVars == <<words, company, best_features, window, trail, downs, par, nbVars>>

\* enc.fit_transform(words)
Encode ==
    /\ pc = "encode"
    /\ words_enc' = fit_transform(words, best_features)
    /\ pc' = "call_above"
    /\ UNCHANGED <<runVars, dir, step, same_company, shifted_csr, cumsum_scr, above, below, X>>

\* Entry of csr_cum_sum: the accumulator, the working copy, the loop counter.
CumSumCall ==
    /\ pc \in {"call_above", "call_below"}
    /\ dir' = (pc = "call_above")
    /\ cumsum_scr' = csr_zeros(words_enc.shape)
    /\ shifted_csr' = words_enc
    /\ same_company' = <<>>
    /\ step' = 1
    /\ pc' = "loop"
    /\ UNCHANGED <<runVars, words_enc, above, below, X>>

\* One iteration of the for loop of csr_cum_sum.
CumSumStep ==
    /\ pc = "loop"
    /\ step <= window
    /\ IF \/ check_format_raises(csr_shift_y(shifted_csr, dir))
          \/ multiply_raises(is_same_after_shift(company, mask_shift(step, dir)), shifted_csr)
       THEN /\ pc' = "ValueError"
            /\ UNCHANGED <<step, same_company, shifted_csr, cumsum_scr>>
       ELSE LET st == cum_step([same_company |-> same_company,
                                shifted_csr |-> shifted_csr,
                                cumsum_scr |-> cumsum_scr], company, step, dir)
            IN  /\ same_company' = st.same_company
                /\ shifted_csr' = st.shifted_csr
                /\ cumsum_scr' = st.cumsum_scr
                /\ step' = step + 1
                /\ pc' = "loop"
    /\ words_enc' = copy_source(words_enc, shifted_csr')
    /\ UNCHANGED <<runVars, dir, above, below, X>>

\* return cumsum_scr, and the .tocsc() of the caller.
CumSumReturn ==
    /\ pc = "loop"
    /\ step > window
    /\ IF dir
       THEN /\ above' = tocsc(cumsum_scr)
            /\ below' = below
            /\ pc' = "call_below"
       ELSE /\ below' = tocsc(cumsum_scr)
            /\ above' = above
            /\ pc' = "stack"
    /\ UNCHANGED <<runVars, words_enc, dir, step, same_company, shifted_csr, cumsum_scr, X>>

\* X = hstack([above, below]); del above; del below; X = X.tocsr(); return X
Stack ==
    /\ pc = "stack"
    /\ X' = tocsr(hstack(above, below))
    /\ above' = None
    /\ below' = None
    /\ pc' = "done"
    /\ UNCHANGED <<runVars, words_enc, dir, step, same_company, shifted_csr, cumsum_scr>>

Next == Encode \/ CumSumCall \/ CumSumStep \/ CumSumReturn \/ Stack

Spec == Init /\ [][Next]_vars

(* ------------------- the boundary scenario's runs ---------------------- *)
\* One group of four tokens over the vocabulary {a, b, c}, window = 1; and
\* two groups of three tokens each, window = 5.
InitScenario ==
    \/ \E ws \in [1..4 -> {"a", "b", "c"}] :
          InitRun(ws, [j \in 1..4 |-> "A"], <<"a", "b", "c">>, 1)
    \/ \E ws \in [1..6 -> Tokens] :
          InitRun(ws, <<"A", "A", "A", "B", "B", "B">>, <<"a", "b", "c">>, 5)

SpecScenario == InitScenario /\ [][Next]_vars

(* ------------- the two accumulations as parallel processes ------------- *)
seqVars == <<dir, step, same_company, shifted_csr, cumsum_scr>>
inputVars == <<words, company, best_features, window, trail, downs, nbVars>>

\* After encoding, the two csr_cum_sum calls of extract_features are started
\* as two processes.
Fork ==
    /\ pc = "call_above"
    /\ pc' = "par"
    /\ par' = [p \in Procs |-> [ProcIdle EXCEPT !.pc = "call"]]
    /\ UNCHANGED <<inputVars, seqVars, words_enc, above, below, X>>

\* Entry of csr_cum_sum in process p.
ParCall(p) ==
    /\ pc = "par"
    /\ par[p].pc = "call"
    /\ par' = [par EXCEPT ![p] = [pc |-> "loop", step |-> 1, same_company |-> <<>>,
                                  shifted_csr |-> words_enc,
                                  cumsum_scr |-> csr_zeros(words_enc.shape)]]
    /\ UNCHANGED <<inputVars, seqVars, pc, words_enc, above, below, X>>

\* One iteration of the for loop of csr_cum_sum in process p.
ParStep(p) ==
    /\ pc = "par"
    /\ par[p].pc = "loop"
    /\ par[p].step <= window
    /\ IF \/ check_format_raises(csr_shift_y(par[p].shifted_csr, p = "above"))
          \/ multiply_raises(is_same_after_shift(company, mask_shift(par[p].step, p = "above")),
                             par[p].shifted_csr)
       THEN par' = [par EXCEPT ![p].pc = "ValueError"]
       ELSE LET st == cum_step([same_company |-> par[p].same_company,
                                shifted_csr |-> par[p].shifted_csr,
                                cumsum_scr |-> par[p].cumsum_scr],
                               company, par[p].step, p = "above")
            IN  par' = [par EXCEPT ![p] = [pc |-> "loop", step |-> par[p].step + 1,
                                           same_company |-> st.same_company,
                                           shifted_csr |-> st.shifted_csr,
                                           cumsum_scr |-> st.cumsum_scr]]
    /\ words_enc' = copy_source(words_enc, par'[p].shifted_csr)
    /\ UNCHANGED <<inputVars, seqVars, pc, above, below, X>>

\* return cumsum_scr in process p, and the .tocsc() of its result.
ParReturn(p) ==
    /\ pc = "par"
    /\ par[p].pc = "loop"
    /\ par[p].step > window
    /\ par' = [par EXCEPT ![p].pc = "returned"]
    /\ IF p = "above"
       THEN above' = tocsc(par[p].cumsum_scr) /\ below' = below
       ELSE below' = tocsc(par[p].cumsum_scr) /\ above' = above
    /\ UNCHANGED <<inputVars, seqVars, pc, words_enc, X>>

\* The join: X = hstack([above, below]); del above; del below; X = X.tocsr()
Join ==
    /\ pc = "par"
    /\ \A p \in Procs : par[p].pc = "returned"
    /\ X' = tocsr(hstack(above, below))
    /\ above' = None
    /\ below' = None
    /\ pc' = "done"
    /\ UNCHANGED <<inputVars, seqVars, par, words_enc>>

ParAbove == ParCall("above") \/ ParStep("above") \/ ParReturn("above")
ParBelow == ParCall("below") \/ ParStep("below") \/ ParReturn("below")

NextPar == Encode \/ Fork \/ ParAbove \/ ParBelow \/ Join

InitPar ==
    \E n \in 1..MaxN :
      \E ws \in [1..n -> Tokens], cv \in CompanyVectors(n), w \in 1..MaxW :
        InitRun(ws, cv, <<"a", "b">>, w)

SpecPar == InitPar /\ [][NextPar]_vars

(* ------------------------ runs on ill-formed input --------------------- *)
\* A company vector whose length differs from the number of tokens, or a
\* vocabulary that holds a label twice.
InitBadInput ==
    \/ \E n \in 1..MaxN, l \in 1..MaxN :
          /\ l # n
          /\ \E ws \in [1..n -> Tokens], cv \in CompanyVectors(l), w \in 0..MaxW :
                InitRun(ws, cv, <<"a", "b">>, w)
    \/ \E n \in 1..MaxN :
          \E ws \in [1..n -> Tokens], cv \in CompanyVectors(n), w \in 0..MaxW,
             cats \in {<<"a", "a">>, <<"a", "b", "a">>} :
                InitRun(ws, cv, cats, w)

SpecBadInput == InitBadInput /\ [][Next]_vars

(* --------------------- csr_shift as a pure function -------------------- *)
\* Any canonical CSR matrix of up to MaxRows rows over the columns ShiftCols
\* with stored values in ShiftVals: indicator and count matrices alike.
ShiftInputs ==
    UNION {{from_dense(d, n, Cardinality(ShiftCols)) :
               d \in [1..n -> [ShiftCols -> {0} \cup ShiftVals]]} : n \in 1..MaxRows}

InitShift ==
    /\ trail \in {<<m>> : m \in ShiftInputs}
    /\ downs = <<>>
    /\ pc = "shift"
    /\ words = <<>>
    /\ company = <<>>
    /\ best_features = <<>>
    /\ window = 0
    /\ words_enc = None
    /\ dir = TRUE
    /\ step = 0
    /\ same_company = <<>>
    /\ shifted_csr = None
    /\ cumsum_scr = None
    /\ above = None
    /\ below = None
    /\ X = None
    /\ par = ParIdle
    /\ NbIdle

\* y = csr_shift(csr, down) applied to the latest matrix of the trail.
Shift(down) ==
    /\ pc = "shift"
    /\ Len(downs) < MaxShifts
    /\ IF check_format_raises(csr_shift_y(trail[Len(trail)], down))
       THEN /\ pc' = "ValueError"
            /\ UNCHANGED <<trail, downs>>
       ELSE /\ trail' = Append([trail EXCEPT ![Len(trail)] =
                                     copy_source(@, csr_shift(trail[Len(trail)], down))],
                                csr_shift(trail[Len(trail)], down))
            /\ downs' = Append(downs, down)
            /\ pc' = pc
    /\ UNCHANGED <<words, company, best_features, window, words_enc, dir, step,
                   same_company, shifted_csr, cumsum_scr, above, below, X, par, nbVars>>

ShiftDown == Shift(TRUE)
ShiftUp == Shift(FALSE)

NextShift == ShiftDown \/ ShiftUp

SpecShift == InitShift /\ [][NextShift]_vars

(* ======================= properties of the run ========================= *)
N == Len(words)
K == Len(best_features)

\* No label occurs twice in the vocabulary.
Distinct(cats) == \A c, e \in 1..Len(cats) : cats[c] = cats[e] => c = e

\* csr_cum_sum has just returned cumsum_scr, computed in direction dir.
Returned == pc \in {"call_below", "stack"}

\* Every company occupies one contiguous run of positions.
Contiguous(v) ==
    \A i, j, k \in 1..Len(v) : (i < j /\ j < k /\ v[i] = v[k]) => v[j] = v[i]

NumGroups(v) == Cardinality({v[j] : j \in 1..Len(v)})
FirstOfGroup(v, i) == i = 1 \/ v[i - 1] # v[i]
LastOfGroup(v, i) == i = Len(v) \/ v[i + 1] # v[i]

\* The w positions before (up) or after position i, inside 1..n.
Side(i, w, up, n) == (IF up THEN (i - w)..(i - 1) ELSE (i + 1)..(i + w)) \cap 1..n

\* Direct count over the whole sequence.
WindowCount(i, c, w, up) ==
    Cardinality({j \in Side(i, w, up, N) :
                    company[j] = company[i] /\ words[j] = best_features[c + 1]})

\* Direct sliding-window scan of one company's words alone.
GroupPositions(g) == SelectSeq([j \in 1..N |-> j], LAMBDA j : company[j] = g)
ScanCount(g, p, c, w, up) ==
    LET gp == GroupPositions(g)
    IN  Cardinality({q \in Side(p, w, up, Len(gp)) : words[gp[q]] = best_features[c + 1]})

DenseRow(m, i) == [c \in 0..(NCols(m) - 1) |-> At(m, i, c)]
ZeroRow(m) == [c \in 0..(NCols(m) - 1) |-> 0]

\* C1: for contiguous groups and W >= 1 the matrix returned by csr_cum_sum
\* holds at row i, column c the number of positions on the given side of i,
\* within W, inside the sequence, of the same group and bearing category c;
\* restricted to one group it equals a sliding-window scan of that group's
\* words alone.
C1_WindowedCount ==
    (Returned /\ window >= 1 /\ Contiguous(company)) =>
        /\ cumsum_scr.shape = <<N, K>>
        /\ \A i \in 1..N : \A c \in 0..(K - 1) :
              At(cumsum_scr, i, c) = WindowCount(i, c, window, dir)
        /\ \A g \in {company[j] : j \in 1..N} :
              \A p \in 1..Len(GroupPositions(g)) : \A c \in 0..(K - 1) :
                 At(cumsum_scr, GroupPositions(g)[p], c) = ScanCount(g, p, c, window, dir)

C1_Witness ==
    /\ Returned /\ ~dir /\ window >= 2
    /\ Contiguous(company) /\ NumGroups(company) >= 2
    /\ \E i \in 1..N : \E c \in 0..(K - 1) : At(cumsum_scr, i, c) >= 1
    /\ \E i \in 1..N : i + 1 <= N /\ company[i + 1] # company[i]
                        /\ IsKnown(words[i + 1], best_features)

\* C2: with at least two contiguous groups and W >= 1, the earlier-direction
\* row at each group's first position and the later-direction row at each
\* group's last position are zero in every category.
C2_NoLeakage ==
    (Returned /\ window >= 1 /\ Contiguous(company) /\ NumGroups(company) >= 2) =>
        \A i \in 1..N :
            /\ (dir /\ FirstOfGroup(company, i)) => DenseRow(cumsum_scr, i) = ZeroRow(cumsum_scr)
            /\ (~dir /\ LastOfGroup(company, i)) => DenseRow(cumsum_scr, i) = ZeroRow(cumsum_scr)

C2_Witness ==
    /\ Returned /\ dir /\ window >= 1
    /\ Contiguous(company) /\ NumGroups(company) >= 2
    /\ \E i \in 2..N : /\ FirstOfGroup(company, i)
                       /\ IsKnown(words[i - 1], best_features)
                       /\ DenseRow(cumsum_scr, i) = ZeroRow(cumsum_scr)
    /\ \E i \in 1..N : DenseRow(cumsum_scr, i) # ZeroRow(cumsum_scr)

(* ------------------------ properties of csr_shift ---------------------- *)
Range(s) == {s[p] : p \in 1..Len(s)}

\* The dense row shift: row i of the result is row i-1 (down) or i+1 (up)
\* of m, and a zero row where there is no such row.
DenseShiftRow(m, i, down) ==
    LET src == IF down THEN i - 1 ELSE i + 1
    IN  IF src \in 1..NRows(m) THEN DenseRow(m, src) ELSE ZeroRow(m)

\* The input row with no destination: the last one (down) or the first (up).
DroppedRow(m, down) == IF down THEN NRows(m) ELSE 1
\* The result row with no source: the first one (down) or the last (up).
VacatedRow(m, down) == IF down THEN 1 ELSE NRows(m)

\* C3: csr_shift agrees with the dense row shift, row i of the result being
\* row i+1 (down=False) or row i-1 (down=True) of the input, and no entry of
\* the row at one end of the input appears in the row at the other end of
\* the result.
C3_ShiftRefinesDense ==
    \A k \in 1..Len(downs) :
        LET S == trail[k]
            T == trail[k + 1]
            n == NRows(S)
        IN  /\ T.shape = S.shape
            /\ \A i \in 1..n :
                  (IF downs[k] THEN i >= 2 ELSE i <= n - 1) =>
                      /\ DenseRow(T, i) = DenseShiftRow(S, i, downs[k])
                      /\ RowEntries(T, i) = RowEntries(S, IF downs[k] THEN i - 1 ELSE i + 1)
            /\ Range(RowEntries(T, VacatedRow(S, downs[k])))
                  \cap Range(RowEntries(S, DroppedRow(S, downs[k]))) = {}

C3_Witness ==
    /\ Len(downs) >= 1
    /\ NRows(trail[1]) >= 3
    /\ \A i \in 1..NRows(trail[1]) : RowEntries(trail[1], i) # <<>>
    /\ RowEntries(trail[1], 1) # RowEntries(trail[1], 2)
    /\ ~downs[1]

\* C4 as stated: after a shift with down=False the first row of the result
\* is empty, and after a shift with down=True the last row of the result is
\* empty.
C4_AsStated ==
    \A k \in 1..Len(downs) :
        RowEntries(trail[k + 1], IF downs[k] THEN NRows(trail[k]) ELSE 1) = <<>>

\* C4 amended: after a shift with down=False the last row of the result is
\* empty, and after a shift with down=True the first row of the result is
\* empty.
C4_VacatedRowEmpty ==
    \A k \in 1..Len(downs) :
        /\ RowEntries(trail[k + 1], VacatedRow(trail[k], downs[k])) = <<>>
        /\ DenseRow(trail[k + 1], VacatedRow(trail[k], downs[k])) = ZeroRow(trail[k])

C4_Witness ==
    /\ Len(downs) >= 1
    /\ downs[1]
    /\ NRows(trail[1]) >= 2
    /\ \A i \in 1..NRows(trail[1]) : RowEntries(trail[1], i) # <<>>

\* C5: the total entry count of csr_shift's result equals the input's total
\* minus the entry count of the one input row that has no destination (the
\* last row for down=True, the first row for down=False).
C5_Conservation ==
    \A k \in 1..Len(downs) :
        LET S == trail[k]
            T == trail[k + 1]
            lost == Len(RowEntries(S, DroppedRow(S, downs[k])))
        IN  /\ Len(T.indices) = Len(S.indices) - lost
            /\ Len(T.data) = Len(S.data) - lost
            /\ T.indptr[Len(T.indptr)] = S.indptr[Len(S.indptr)] - lost
            /\ (lost = 0 => Len(T.indices) = Len(S.indices))

C5_Witness ==
    /\ Len(downs) >= 1
    /\ NRows(trail[1]) >= 2
    /\ Len(RowEntries(trail[1], DroppedRow(trail[1], downs[1]))) >= 1
    /\ Len(trail[2].indices) >= 1

\* C6: a shift followed by the opposite shift gives back every row of the
\* input except the boundary row whose entries fell off in the first shift,
\* which is empty in the result; the round trip is the identity exactly when
\* that row of the input was empty.
C6_RoundTrip ==
    \A k \in 1..(Len(downs) - 1) :
        (downs[k + 1] = ~downs[k]) =>
            LET S == trail[k]
                R == trail[k + 2]
                b == DroppedRow(S, downs[k])
            IN  /\ R.shape = S.shape
                /\ \A i \in 1..NRows(S) :
                      RowEntries(R, i) = IF i = b THEN <<>> ELSE RowEntries(S, i)
                /\ (R = S) <=> (RowEntries(S, b) = <<>>)

C6_Witness ==
    /\ Len(downs) >= 2
    /\ downs[1] /\ ~downs[2]
    /\ NRows(trail[1]) >= 2
    /\ \A i \in 1..NRows(trail[1]) : RowEntries(trail[1], i) # <<>>
    /\ trail[3] # trail[1]

(* ---------------------- the group-boundary mask ------------------------ *)
\* C7: the mask of iteration d has entry j true iff the position d steps
\* earlier (above) or later (below) than j lies inside the sequence and
\* carries the same company as j; the entries whose neighbour would lie
\* outside the sequence are false.
C7_MaskExact ==
    (pc = "loop" /\ step > 1) =>
        /\ Len(same_company) = N
        /\ \A j \in 1..N :
              LET src == IF dir THEN j - (step - 1) ELSE j + (step - 1)
              IN  (same_company[j] = 1) <=> (src \in 1..N /\ company[src] = company[j])

(* --------------------------- extract_features -------------------------- *)
\* C8: X has shape (N, 2K); X[i, c] is the earlier-direction count of row i
\* and X[i, K + c] the later-direction count of the same row i.
C8_Halves ==
    (pc = "done") =>
        LET earlier == csr_cum_sum(words_enc, company, window, TRUE)
            later == csr_cum_sum(words_enc, company, window, FALSE)
        IN  /\ X.shape = <<N, 2 * K>>
            /\ \A i \in 1..N : \A c \in 0..(K - 1) :
                  /\ At(X, i, c) = At(earlier, i, c)
                  /\ At(X, i, K + c) = At(later, i, c)

C8_Witness ==
    /\ pc = "done"
    /\ window >= 1
    /\ \E i \in 1..N : \E c \in 0..(K - 1) :
          /\ At(X, i, c) # At(X, i, K + c)
          /\ At(X, i, c) >= 1
    /\ \E i \in 1..N : \E c \in 0..(K - 1) : At(X, i, K + c) >= 1

\* C9: for every position and category the count for window W + 1 is at
\* least the count for window W.
C9_Monotone ==
    Returned =>
        LET wider == csr_cum_sum(words_enc, company, window + 1, dir)
        IN  \A i \in 1..N : \A c \in 0..(K - 1) :
                At(wider, i, c) >= At(cumsum_scr, i, c)

C9_Witness ==
    /\ Returned
    /\ window >= 1
    /\ LET wider == csr_cum_sum(words_enc, company, window + 1, dir)
       IN  \E i \in 1..N : \E c \in 0..(K - 1) :
              /\ At(cumsum_scr, i, c) >= 1
              /\ At(wider, i, c) > At(cumsum_scr, i, c)

\* C10: one group with labels [a, b, c, a], vocabulary {a, b, c}, window 1:
\* the earlier-direction counts of category a at positions 0..3 are [0, 1, 0, 0].
C10_Scenario ==
    LET IsScenario == /\ words = <<"a", "b", "c", "a">>
                      /\ NumGroups(company) = 1
                      /\ best_features = <<"a", "b", "c">>
                      /\ window = 1
                      /\ pc = "call_below"
    IN  IsScenario =>
        /\ dir
        /\ [i \in 1..N |-> At(cumsum_scr, i, 0)] = <<0, 1, 0, 0>>

C10_Witness ==
    /\ words = <<"a", "b", "c", "a">>
    /\ NumGroups(company) = 1
    /\ best_features = <<"a", "b", "c">>
    /\ window = 1
    /\ pc = "call_below"
    /\ At(cumsum_scr, 2, 0) = 1

\* C11: two groups of three tokens, window 5: the earlier-direction row at
\* the first position of the second group is zero in every category, for
\* every assignment of labels.
C11_Isolation ==
    (/\ company = <<"A", "A", "A", "B", "B", "B">>
     /\ window = 5
     /\ pc = "call_below") =>
        /\ dir
        /\ DenseRow(cumsum_scr, 4) = ZeroRow(cumsum_scr)

C11_Witness ==
    /\ company = <<"A", "A", "A", "B", "B", "B">>
    /\ window = 5
    /\ pc = "call_below"
    /\ \A j \in 1..3 : IsKnown(words[j], best_features)
    /\ DenseRow(cumsum_scr, 4) = ZeroRow(cumsum_scr)
    /\ DenseRow(cumsum_scr, 3) # ZeroRow(cumsum_scr)
    /\ DenseRow(cumsum_scr, 6) # ZeroRow(cumsum_scr)

(* ------------------------------ the encoder ---------------------------- *)
\* C12: the encoder returns an (N, K) indicator with entry (i, c) = 1 iff
\* token i's label is vocabulary entry c and 0 otherwise; an unknown token
\* gives an empty row and no error, every row stores at most one entry, and
\* each column sums to the number of tokens bearing that label.
C12_Encoder ==
    (pc \notin {"encode", "shift"} /\ Distinct(best_features)) =>
        /\ pc # "ValueError"
        /\ words_enc.shape = <<N, K>>
        /\ \A i \in 1..N :
              /\ \A c \in 0..(K - 1) :
                    At(words_enc, i, c) = IF words[i] = best_features[c + 1] THEN 1 ELSE 0
              /\ Len(RowEntries(words_enc, i)) <= 1
              /\ ~IsKnown(words[i], best_features) => RowEntries(words_enc, i) = <<>>
        /\ \A c \in 0..(K - 1) :
              SumRange([i \in 1..N |-> At(words_enc, i, c)], 1, N)
                 = Cardinality({i \in 1..N : words[i] = best_features[c + 1]})

C12_Witness ==
    /\ pc = "call_above"
    /\ Distinct(best_features)
    /\ \E i \in 1..N : ~IsKnown(words[i], best_features)
    /\ \E i, j \in 1..N : i # j /\ words[i] = words[j] /\ IsKnown(words[i], best_features)

(* ---------------------------- error handling --------------------------- *)
\* extract_features or one of its csr_cum_sum calls has returned a matrix.
ReturnedMatrix == pc \in {"call_below", "stack", "done"}

\* C13: a call with window size <= 0 or window size > N fails with
\* InvalidWindow and never returns a matrix.
C13_InvalidWindow ==
    (window <= 0 \/ window > N) => ~ReturnedMatrix

\* C14: a call (with a window size in 1..N) whose company vector has a
\* length different from the number of rows N fails with ShapeMismatch and
\* returns no result.
C14_ShapeMismatch ==
    (Len(company) # N /\ window \in 1..N) => ~ReturnedMatrix

\* C15: the encoder fails with InvalidVocabulary when the vocabulary holds
\* the same label twice, and produces no indicator structure.
C15_InvalidVocabulary ==
    ~Distinct(best_features) => (pc = "encode" /\ words_enc = None)

(* --------------------------- well-formedness --------------------------- *)
WellFormed(m) ==
    /\ Len(m.indptr) = NRows(m) + 1
    /\ m.indptr[1] = 0
    /\ \A k \in 1..NRows(m) : m.indptr[k] <= m.indptr[k + 1]
    /\ m.indptr[Len(m.indptr)] = Len(m.indices)
    /\ Len(m.indices) = Len(m.data)
    /\ \A p \in 1..Len(m.indices) : m.indices[p] >= 0 /\ m.indices[p] < NCols(m)
    /\ \A i \in 1..NRows(m) :
          \A p \in (m.indptr[i] + 1)..(m.indptr[i + 1] - 1) : m.indices[p] < m.indices[p + 1]

\* C16: for a well-formed input and either direction csr_shift returns a
\* well-formed structure (indptr of N+1 entries from 0, non-decreasing, ending
\* at the number of stored entries; indices and data of equal length; column
\* indices in range and sorted within each row) and never fails the check.
C16_ShiftWellFormed ==
    (pc \in {"shift", "ValueError"} /\ WellFormed(trail[1])) =>
        /\ pc # "ValueError"
        /\ \A k \in 2..Len(trail) : WellFormed(trail[k])

C16_Witness ==
    /\ Len(downs) >= 1
    /\ downs[1]
    /\ WellFormed(trail[1])
    /\ NRows(trail[1]) >= 2
    /\ Len(RowEntries(trail[1], NRows(trail[1]))) >= 2
    /\ Len(trail[2].indices) >= 2

(* ------------------------ parallel accumulation ------------------------ *)
\* C17: the two csr_cum_sum calls, run as two processes interleaved in any
\* order, share no mutable state: each returns the matrix the call returns
\* when run alone on the encoded input, the input is never changed, and the
\* final (N, 2K) matrix is the one of the sequential run.
C17_ParallelIndependent ==
    (pc \in {"par", "done"}) =>
        LET enc == fit_transform(words, best_features)
            earlier == csr_cum_sum(enc, company, window, TRUE)
            later == csr_cum_sum(enc, company, window, FALSE)
        IN  /\ words_enc = enc
            /\ par["above"].pc # "ValueError" /\ par["below"].pc # "ValueError"
            /\ par["above"].pc = "returned" => par["above"].cumsum_scr = earlier
            /\ par["below"].pc = "returned" => par["below"].cumsum_scr = later
            /\ pc = "done" => X = tocsr(hstack(tocsc(earlier), tocsc(later)))

C17_Witness ==
    /\ pc = "par"
    /\ window >= 2
    /\ par["below"].pc = "returned"
    /\ par["above"].pc = "loop" /\ par["above"].step = 2
    /\ Len(par["below"].cumsum_scr.indices) >= 1
    /\ Len(par["above"].cumsum_scr.indices) >= 1

(* ------------------- company vectors that are not runs ----------------- *)
\* C18: contiguity of the company vector is not checked. For a vector in
\* which a company reappears after another one, no error is raised, and each
\* returned count includes every token at distance d <= W with the same
\* company identifier, the tokens of other companies in between notwithstanding;
\* the same holds for the two halves of X.
C18_NonContiguous ==
    ~Contiguous(company) =>
        /\ pc # "ValueError"
        /\ Returned =>
              \A i \in 1..N : \A c \in 0..(K - 1) :
                 At(cumsum_scr, i, c) = WindowCount(i, c, window, dir)
        /\ pc = "done" =>
              \A i \in 1..N : \A c \in 0..(K - 1) :
                 /\ At(X, i, c) = WindowCount(i, c, window, TRUE)
                 /\ At(X, i, K + c) = WindowCount(i, c, window, FALSE)

C18_Witness ==
    /\ pc = "done"
    /\ ~Contiguous(company)
    /\ \E i, j \in 1..N : \E c \in 0..(K - 1) :
          /\ j + 1 < i /\ i - j <= window
          /\ company[j] = company[i]
          /\ \A k \in (j + 1)..(i - 1) : company[k] # company[i]
          /\ words[j] = best_features[c + 1]
          /\ At(X, i, c) = 1
          /\ At(X, j, K + c) >= 1

(* ----------------------- the loop of csr_cum_sum ----------------------- *)
\* C19: at the end of iteration d of csr_cum_sum, row i of shifted_csr is
\* row i - d (above) or row i + d (below) of the encoded input when that row
\* exists and is empty otherwise, and the mask of that iteration is the one
\* is_same_after_shift gives for distance d in the same direction: wherever
\* the neighbour at distance d exists it tells whether it is of the same company.
C19_CumulativeShift ==
    (pc = "loop" /\ step > 1) =>
        LET d == step - 1
            from(i) == IF dir THEN i - d ELSE i + d
        IN  /\ d \in 1..window
            /\ shifted_csr.shape = words_enc.shape
            /\ \A i \in 1..N :
                  RowEntries(shifted_csr, i) =
                      IF from(i) \in 1..N THEN RowEntries(words_enc, from(i)) ELSE <<>>
            /\ same_company = is_same_after_shift(company, IF dir THEN d ELSE 0 - d)
            /\ \A j \in 1..N :
                  from(j) \in 1..N =>
                      ((same_company[j] = 1) <=> (company[from(j)] = company[j]))

C19_Witness ==
    /\ pc = "loop" /\ step = 3 /\ ~dir
    /\ \E i \in 1..N : /\ i + 2 <= N
                        /\ Len(RowEntries(shifted_csr, i)) = 1
                        /\ same_company[i] = 1
    /\ \E i \in 1..N : /\ i + 2 > N
                        /\ Len(RowEntries(words_enc, i)) = 1
                        /\ Len(RowEntries(shifted_csr, i)) = 0

\* C20: the number of stored entries of shifted_csr never grows: every
\* iteration leaves it less than or equal to what it was before the shift,
\* and it never exceeds the number of stored entries of the encoded input.
C20_EntriesNonIncreasing ==
    [][(pc = "loop" /\ pc' = "loop") =>
          /\ Len(shifted_csr'.indices) <= Len(shifted_csr.indices)
          /\ Len(shifted_csr'.indices) <= Len(words_enc.indices)
          /\ Len(shifted_csr.indices) <= Len(words_enc.indices)]_vars

C20_Witness ==
    /\ pc = "loop" /\ step = 3
    /\ Len(words_enc.indices) = 3
    /\ Len(shifted_csr.indices) = 1

(* ----------------------------- frame effects --------------------------- *)
\* C21: the inputs are left unchanged: no step of the run changes the words,
\* the company vector or, once it is encoded, the indicator matrix words_enc,
\* whose indptr, indices and data stay what the encoder produced in every
\* iteration of csr_cum_sum (each of which calls csr_shift) and on return.
C21_InputsUnchanged ==
    [][/\ company' = company
       /\ words' = words
       /\ best_features' = best_features
       /\ (pc # "encode") =>
             /\ words_enc' = words_enc
             /\ words_enc = fit_transform(words, best_features)]_vars

C21_Witness ==
    /\ pc = "stack"
    /\ window >= 2
    /\ words_enc = fit_transform(words, best_features)
    /\ Len(words_enc.indices) >= 2
    /\ Len(shifted_csr.indices) < Len(words_enc.indices)
    /\ Len(cumsum_scr.indices) >= 1

\* C22: in every state of csr_cum_sum (before the loop, after each iteration,
\* on return) the accumulator cumsum_scr and the working copy shifted_csr have
\* the shape (N, K) of the input, and every stored entry of both is a
\* non-negative integer.
NonNegative(m) == \A p \in 1..Len(m.data) : m.data[p] \in Nat
C22_ShapeAndSign ==
    (pc \in {"loop", "call_below", "stack"}) =>
        /\ words_enc.shape = <<N, K>>
        /\ cumsum_scr.shape = <<N, K>> /\ shifted_csr.shape = <<N, K>>
        /\ Len(cumsum_scr.indptr) = N + 1 /\ Len(shifted_csr.indptr) = N + 1
        /\ NonNegative(cumsum_scr) /\ NonNegative(shifted_csr)

C22_Witness ==
    /\ pc = "loop" /\ step = 3
    /\ N # K
    /\ \E p \in 1..Len(cumsum_scr.data) : cumsum_scr.data[p] = 2
    /\ Len(shifted_csr.data) >= 1

(* --------------------- the two ends of the sequence -------------------- *)
\* The words of category c of i's company among the positions js.
CountIn(js, i, c) ==
    Cardinality({j \in js : company[j] = company[i] /\ words[j] = best_features[c + 1]})

\* C23: when the first and the last token are of the same company, the
\* earlier-direction count at one of the first W positions i counts only the
\* positions before i, and the later-direction count at one of the last W
\* positions counts only the positions after i: nothing from the other end
\* of the sequence is counted, although the mask compares with a rotation.
C23_NoWrapLeakage ==
    (Returned /\ window >= 1 /\ company[1] = company[N]) =>
        \A i \in 1..N : \A c \in 0..(K - 1) :
            /\ (dir /\ i <= window) =>
                  At(cumsum_scr, i, c) = CountIn(1..(i - 1), i, c)
            /\ (~dir /\ i > N - window) =>
                  At(cumsum_scr, i, c) = CountIn((i + 1)..N, i, c)

C23_Witness ==
    /\ Returned /\ dir /\ window >= 1 /\ N >= 2
    /\ company[1] = company[N]
    /\ same_company[1] = 1
    /\ IsKnown(words[N], best_features)
    /\ DenseRow(cumsum_scr, 1) = ZeroRow(cumsum_scr)
    /\ \E c \in 0..(K - 1) : At(cumsum_scr, N, c) >= 1

(* ------------------------------ saturation ----------------------------- *)
\* The number of positions of the largest company.
LongestGroup ==
    CHOOSE l \in 1..N : /\ \E j \in 1..N : Len(GroupPositions(company[j])) = l
                        /\ \A j \in 1..N : Len(GroupPositions(company[j])) <= l

RowSum(m, i) == SumRange(m.data, m.indptr[i] + 1, m.indptr[i + 1])
Min(a, b) == IF a < b THEN a ELSE b

\* The positions of i's company on the given side of i, at any distance.
SameSide(i, up) == {j \in Side(i, N, up, N) : company[j] = company[i]}

\* C25: the encoded input has at most one entry, of value 1, in each row;
\* after d iterations every row of the accumulator sums to at most d; in the
\* returned matrix row i sums to at most min(W, number of positions of i's
\* company on the given side of i); and position i is never counted in its
\* own row.
C25_RowSums ==
    /\ (pc # "encode") => \A i \in 1..N : RowSum(words_enc, i) <= 1
    /\ (pc = "loop") => \A i \in 1..N : RowSum(cumsum_scr, i) <= step - 1
    /\ Returned =>
          \A i \in 1..N :
             /\ RowSum(cumsum_scr, i) <= Min(window, Cardinality(SameSide(i, dir)))
             /\ \A c \in 0..(K - 1) :
                   At(cumsum_scr, i, c) <= CountIn((1..N) \ {i}, i, c)

C25_Witness ==
    /\ Returned /\ dir /\ N = 3 /\ window = 2
    /\ RowSum(cumsum_scr, 3) = 2
    /\ RowSum(cumsum_scr, 2) = 1
    /\ \E c \in 0..(K - 1) : /\ words[3] = best_features[c + 1]
                              /\ At(cumsum_scr, 3, c) = 0

(* ---------------------------- mirror symmetry -------------------------- *)
Reverse(v) == np_array([j \in 1..Len(v) |-> v[Len(v) + 1 - j]])
RowReverse(m) ==
    from_dense([i \in 1..NRows(m) |->
                   [c \in 0..(NCols(m) - 1) |-> At(m, NRows(m) + 1 - i, c)]],
               NRows(m), NCols(m))

\* C26: the later-direction result (above=False) is the row-reversal of the
\* earlier-direction result (above=True) computed on the row-reversed
\* indicator matrix and the reversed company vector, and the other way round.
C26_Mirror ==
    Returned =>
        cumsum_scr = RowReverse(csr_cum_sum(RowReverse(words_enc), Reverse(company),
                                            window, ~dir))

C26_Witness ==
    /\ pc = "stack" /\ ~dir
    /\ N = 3 /\ window >= 2
    /\ company # Reverse(company)
    /\ words_enc # RowReverse(words_enc)
    /\ cumsum_scr # RowReverse(cumsum_scr)
    /\ RowSum(cumsum_scr, 1) >= 1

(* -------------------- csr_shift down, a full last row ------------------ *)
LastRowCount(m) == Len(RowEntries(m, NRows(m)))

\* C27: csr_shift(down=True) on a matrix whose last row holds m >= 2 stored
\* entries raises nothing and removes all m of them from indices and data:
\* the result stores exactly (input entries - m) entries, its first row is
\* empty and every other row holds the column indices and values of the
\* input row above it.
C27_DownFullLastRow ==
    /\ pc \in {"shift", "ValueError"} => pc # "ValueError"
    /\ pc = "shift" =>
          \A k \in 1..Len(downs) :
             (downs[k] /\ LastRowCount(trail[k]) >= 2) =>
                 /\ Len(trail[k + 1].indices) = Len(trail[k].indices) - LastRowCount(trail[k])
                 /\ Len(trail[k + 1].data) = Len(trail[k].data) - LastRowCount(trail[k])
                 /\ trail[k + 1].shape = trail[k].shape
                 /\ RowEntries(trail[k + 1], 1) = <<>>
                 /\ \A i \in 1..(NRows(trail[k]) - 1) :
                       RowEntries(trail[k + 1], i + 1) = RowEntries(trail[k], i)

C27_Witness ==
    /\ pc = "shift"
    /\ \E k \in 1..Len(downs) :
          /\ downs[k]
          /\ LastRowCount(trail[k]) = 2
          /\ NRows(trail[k]) = 3
          /\ Len(RowEntries(trail[k], 1)) = 2
          /\ Len(RowEntries(trail[k], 2)) = 1
          /\ Len(trail[k + 1].indices) = 3

(* ======================= the data-collection notebook ================== *)
\* The feature-extraction run not started.
featVars == <<words, company, best_features, window,
              pc, words_enc, dir, step, same_company, shifted_csr, cumsum_scr,
              above, below, X, trail, downs, par>>
FeatIdle ==
    /\ words = <<>> /\ company = <<>> /\ best_features = <<>> /\ window = 0
    /\ pc = "idle" /\ words_enc = None /\ dir = TRUE /\ step = 0
    /\ same_company = <<>> /\ shifted_csr = None /\ cumsum_scr = None
    /\ above = None /\ below = None /\ X = None
    /\ trail = <<>> /\ downs = <<>> /\ par = ParIdle

(* ------------------ get_html_from_url and the download loop ------------ *)
MaxFilings == 2    \* most filings of the list the loop runs over
MaxCalls == 2      \* most calls of get_html_from_url outside the loop

\* The URL field (filing[-1]) of the filings of the index.
FilingUrls == {"/f1-index.htm", "/f2-index.htm", "/f3-index.htm"}

\* The href of the 10-K row of the table of a filing's index page.
Href(filing_url) ==
    CASE filing_url = "/f1-index.htm" -> "/f1/10k.htm"
      [] filing_url = "/f2-index.htm" -> "/f2/10k.htm"
      [] OTHER -> "/f3/10k.htm"

\* requests.get(url).text: every URL serves a page of its own.
requests_get(url) == <<"text of", url>>

\* return domain_url + url_10k, with url_10k a local of get_10k_url.
get_10k_url(filing_url) == <<"https://www.sec.gov", Href(filing_url)>>

\* r = requests.get(url_10k); return r.text.  The name url_10k in the body is
\* the global of the notebook, the parameter url is not used.
get_html_from_url(url, global_url_10k) == requests_get(global_url_10k)

TenKUrls == {get_10k_url(f) : f \in FilingUrls}

InitDownload ==
    /\ \E m \in 0..MaxFilings : filings \in [1..m -> FilingUrls]
    /\ i_filing = 0
    /\ url_10k = Undefined
    /\ saved = <<>>
    /\ calls = <<>>
    /\ dpc = "loop"
    /\ index_lines = <<>> /\ n_want = 0 /\ text = 0 /\ filings_n = <<>> /\ gpc = "idle"
    /\ data_train = <<>> /\ unique_words = <<>> /\ counts = <<>>
    /\ top_features = <<>> /\ spc = "idle"
    /\ FeatIdle

restVars == <<index_lines, n_want, text, filings_n, gpc,
              data_train, unique_words, counts, top_features, spc, featVars>>

\* One iteration of the download loop: url_10k = get_10k_url(filing[-1]);
\* html_10k = get_html_from_url(url_10k); save_file(path+'/10k.html', html_10k)
LoopIteration ==
    /\ dpc = "loop"
    /\ i_filing < Len(filings)
    /\ LET filing == filings[i_filing + 1]
           parsed == get_10k_url(filing)
           html_10k == get_html_from_url(parsed, parsed)
       IN  /\ url_10k' = parsed
           /\ saved' = Append(saved, [filing |-> filing, html |-> html_10k])
    /\ i_filing' = i_filing + 1
    /\ UNCHANGED <<filings, calls, dpc, restVars>>

\* A call get_html_from_url(url) from a cell of the notebook.
CallGetHtml ==
    /\ dpc = "loop"
    /\ Len(calls) < MaxCalls
    /\ \E url \in TenKUrls :
          IF url_10k = Undefined
          THEN dpc' = "NameError" /\ calls' = calls
          ELSE /\ calls' = Append(calls, [url |-> url, url_10k |-> url_10k,
                                          text |-> get_html_from_url(url, url_10k)])
               /\ dpc' = dpc
    /\ UNCHANGED <<filings, i_filing, url_10k, saved, restVars>>

NextDownload == LoopIteration \/ CallGetHtml

SpecDownload == InitDownload /\ [][NextDownload]_vars

\* C28: get_html_from_url(url) requests and returns the page at its argument:
\* two calls with the same argument return the same page whatever the global
\* url_10k holds, and the loop saves as 10k.html the page of the 10-K URL
\* parsed for the same filing.
C28_RequestsArgument ==
    /\ \A k \in 1..Len(calls) : calls[k].text = requests_get(calls[k].url)
    /\ \A k, l \in 1..Len(calls) :
          calls[k].url = calls[l].url => calls[k].text = calls[l].text
    /\ \A k \in 1..Len(saved) :
          /\ saved[k].filing = filings[k]
          /\ saved[k].html = requests_get(get_10k_url(filings[k]))

(* ------------------------------ get_n_filings -------------------------- *)
MaxLines == 3      \* most data lines of the index
MaxWant == 2       \* largest number n of filings asked for

FIELDS == <<"Company Name", "Form Type", "CIK", "Date Filed", "URL">>

\* The header line of the index (index_str.split('\n')[7]), one cell per
\* column of the fixed-width table: a field name stands where it starts.
HeaderLine == <<"Company Name", "Form Type", " ", " ", " ", " ", " ",
                "CIK", "Date Filed", "URL">>

\* field_names_str.index(field_name), 0-based.
str_index(field_names_str, field_name) ==
    (CHOOSE k \in 1..Len(field_names_str) :
        /\ field_names_str[k] = field_name
        /\ \A j \in 1..(k - 1) : field_names_str[j] # field_name) - 1

get_field_coords(field_names_str) ==
    np_array([f \in 1..Len(FIELDS) |-> str_index(field_names_str, FIELDS[f])])

\* Python's s[start:end] on a string given as its characters.
Slice(str, start, end) == SubSeq(str, start + 1, Min(end, Len(str)))

RECURSIVE lstrip(_)
lstrip(str) == IF str # <<>> /\ Head(str) = " " THEN lstrip(Tail(str)) ELSE str
RECURSIVE rstrip(_)
rstrip(str) ==
    IF str # <<>> /\ str[Len(str)] = " " THEN rstrip(SubSeq(str, 1, Len(str) - 1)) ELSE str
\* f.strip()
strip(str) == rstrip(lstrip(str))

\* fields = [fields_str[start:end] for start, end in zip(coords[:-1], coords[1:])]
\* fields += [fields_str[coords[-1]:]]; fields = [f.strip() for f in fields]
unpack_fields(fields_str, coords) ==
    np_array([f \in 1..Len(coords) |->
        strip(IF f < Len(coords)
              THEN Slice(fields_str, coords[f], coords[f + 1])
              ELSE Slice(fields_str, coords[f], Len(fields_str)))])

TenK == <<"1", "0", "-", "K">>

\* Data lines of the index: 10-K filings of companies A and B, an amended
\* 10-K/A, a 10-Q, and the empty line that follows the final newline.
IndexLines ==
    {<<"A", "1", "0", "-", "K", " ", " ", "1", "d", "u">>,
     <<"B", "1", "0", "-", "K", " ", " ", "2", "d", "u">>,
     <<"C", "1", "0", "-", "K", "/", "A", "3", "d", "u">>,
     <<"D", "1", "0", "-", "Q", " ", " ", "4", "d", "u">>,
     <<>>}

InitGetN ==
    /\ \E m \in 0..MaxLines : index_lines \in [1..m -> IndexLines]
    /\ n_want \in 0..MaxWant
    /\ text = 0
    /\ filings_n = <<>>
    /\ gpc = "while"
    /\ filings = <<>> /\ i_filing = 0 /\ url_10k = Undefined
    /\ saved = <<>> /\ calls = <<>> /\ dpc = "idle"
    /\ data_train = <<>> /\ unique_words = <<>> /\ counts = <<>>
    /\ top_features = <<>> /\ spc = "idle"
    /\ FeatIdle

otherVars == <<filings, i_filing, url_10k, saved, calls, dpc,
               data_train, unique_words, counts, top_features, spc, featVars>>

\* One pass of the while loop: line = next(text) raises StopIteration when
\* the iterator over the data lines is exhausted.
WhileStep ==
    /\ gpc = "while"
    /\ Len(filings_n) < n_want
    /\ IF text >= Len(index_lines)
       THEN /\ gpc' = "StopIteration"
            /\ UNCHANGED <<text, filings_n>>
       ELSE LET line == index_lines[text + 1]
                fields == unpack_fields(line, get_field_coords(HeaderLine))
            IN  /\ text' = text + 1
                /\ filings_n' = IF fields[2] = TenK THEN Append(filings_n, fields)
                                                   ELSE filings_n
                /\ gpc' = gpc
    /\ UNCHANGED <<index_lines, n_want, otherVars>>

\* return filings
ReturnFilings ==
    /\ gpc = "while"
    /\ Len(filings_n) >= n_want
    /\ gpc' = "returned"
    /\ UNCHANGED <<index_lines, n_want, text, filings_n, otherVars>>

NextGetN == WhileStep \/ ReturnFilings

SpecGetN == InitGetN /\ [][NextGetN]_vars

\* The lines of the index whose Form Type field is '10-K', unpacked, in order.
TenKFilings ==
    LET unpacked == [k \in 1..Len(index_lines) |->
                        unpack_fields(index_lines[k], get_field_coords(HeaderLine))]
    IN  SelectSeq(unpacked, LAMBDA fields : fields[2] = TenK)

\* C29: get_n_filings terminates normally for every index and every n >= 0:
\* it never raises on exhaustion of the index lines, and what it returns is
\* the first n lines of Form Type '10-K' in index order (all of them when
\* there are fewer).
C29_TerminatesNormally ==
    /\ gpc # "StopIteration"
    /\ gpc = "returned" =>
          filings_n = SubSeq(TenKFilings, 1, Min(n_want, Len(TenKFilings)))

(* ==================== the feature-selection notebook =================== *)
MinCount == 100    \* the number in top_features = words[counts > 100]

\* The words of the training set, in sorted order.
TrainWords == <<"u", "v", "w">>

\* How often a word may occur in the training set: not at all, or about
\* MinCount times.
CountValues == {0, MinCount - 1, MinCount, MinCount + 1}

\* np.unique(data_train, return_counts=True) on the training set given by the
\* number of occurrences of each word: the sorted words that occur, and their counts.
np_unique(occurrences) ==
    LET present == SelectSeq([k \in 1..Len(TrainWords) |-> k],
                             LAMBDA k : occurrences[TrainWords[k]] > 0)
    IN  [words  |-> np_array([p \in 1..Len(present) |-> TrainWords[present[p]]]),
         counts |-> np_array([p \in 1..Len(present) |-> occurrences[TrainWords[present[p]]]])]

\* words[counts > 100]
filter_counts(ws, cs) ==
    LET kept == SelectSeq([p \in 1..Len(ws) |-> p], LAMBDA p : cs[p] > MinCount)
    IN  np_array([q \in 1..Len(kept) |-> ws[kept[q]]])

InitSelect ==
    /\ data_train \in [{TrainWords[k] : k \in 1..Len(TrainWords)} -> CountValues]
    /\ unique_words = <<>>
    /\ counts = <<>>
    /\ top_features = <<>>
    /\ spc = "unique"
    /\ filings = <<>> /\ i_filing = 0 /\ url_10k = Undefined
    /\ saved = <<>> /\ calls = <<>> /\ dpc = "idle"
    /\ index_lines = <<>> /\ n_want = 0 /\ text = 0 /\ filings_n = <<>> /\ gpc = "idle"
    /\ FeatIdle

collectVars == <<filings, i_filing, url_10k, saved, calls, dpc,
                 index_lines, n_want, text, filings_n, gpc, featVars>>

\* words, counts = np.unique(data_train, return_counts=True)
Unique ==
    /\ spc = "unique"
    /\ unique_words' = np_unique(data_train).words
    /\ counts' = np_unique(data_train).counts
    /\ spc' = "filter"
    /\ UNCHANGED <<data_train, top_features, collectVars>>

\* top_features = words[counts > 100]
Filter ==
    /\ spc = "filter"
    /\ top_features' = filter_counts(unique_words, counts)
    /\ spc' = "done"
    /\ UNCHANGED <<data_train, unique_words, counts, collectVars>>

NextSelect == Unique \/ Filter

SpecSelect == InitSelect /\ [][NextSelect]_vars

\* C30: the frequent-word filter keeps exactly the words whose count in the
\* training set is at least 100: a word occurring exactly 100 times is kept,
\* one occurring 99 times is dropped.
C30_MinimumCount ==
    (spc = "done") =>
        \A k \in 1..Len(TrainWords) :
            (\E q \in 1..Len(top_features) : top_features[q] = TrainWords[k])
                <=> (data_train[TrainWords[k]] >= 100)

====
